---- MODULE Spec2Model ----
(***************************************************************************)
(* Model of batchget.go: the Batch / BatchGet builder and the bgIter       *)
(* paging iterator of a DynamoDB BatchGetItem operation.                   *)
(*                                                                         *)
(* One behaviour is one logical batch: table.Batch(names...), Get(keys...),*)
(* any number of And(keys...) and Consistent(on), then either All(out) or  *)
(* Iter() followed by calls of Next.  The transport (BatchGetItem behind   *)
(* retry) and the item decoder (unmarshal) are external: every call of     *)
(* them is a nondeterministic choice among the results they can give.      *)
(***************************************************************************)
EXTENDS Integers, Sequences, FiniteSets

\* ------------------------------------------------------------------ bounds
\* Largest number of key names tried with table.Batch(names...).
MaxNames == 3
\* Largest number of keys a builder is given over Get and every And.
MaxKeys == 3
\* Largest number of calls of Next made after Next has returned false.
MaxDeadCalls == 2

\* --------------------------------------------------------------- constants
\* Batch takes at most a hash key name and a range key name (case 2).
MaxKeyNames == 2

VARIABLES
    pc,         \* where the caller is: "start", "batch", "get", "all", "iter", "done"
    names,      \* the hashAndRangeKeyName arguments given to Batch
    b,          \* the Batch value: hashKey, rangeKey, err
    bg,         \* the BatchGet: reqs, consistent, err (projection is never set in this file)
    itr,        \* the bgIter: input, output, err, idx, backoff (NextBackOff calls so far)
    out,        \* the items unmarshal has stored, in order (the slice All appends to)
    ret,        \* what the latest call of Next returned: "none", "true" or "false"
    allErr,     \* what All returned, once pc = "done"
    reqLog,     \* every request handed to the transport, in order
    respLog,    \* the transport's answer to each request, in order
    unmarshals, \* how many times itr.unmarshal has been called
    calls,      \* how many times Next has been called
    deadCalls,  \* calls of Next made after a call that returned false
    panicked    \* a nil dereference stopped the program

vars == <<pc, names, b, bg, itr, out, ret, allErr, reqLog, respLog,
          unmarshals, calls, deadCalls, panicked>>

\* ------------------------------------------------------------------ values
\* Errors are records so that any two of them can be compared.
NoErr == [kind |-> "nil", key |-> 0]
ErrNotFound == [kind |-> "notfound", key |-> 0]
ErrTooManyKeys == [kind |-> "toomanykeys", key |-> 0]
ErrTransport == [kind |-> "transport", key |-> 0]
ErrDecode(item) == [kind |-> "decode", key |-> item]
ErrKey(id) == [kind |-> "key", key |-> id]

\* A nil pointer (itr.input, itr.output before the first fetch).
Nil == [nil |-> TRUE]

\* The name "" of an absent hash or range key; names are numbered from 1.
NoName == 0

\* A KeysAndAttributes with no keys: what a missing table entry of
\* RequestItems or of UnprocessedKeys amounts to.
NoKeys == [Keys |-> <<>>, ConsistentRead |-> FALSE]

\* A key as the caller gives it: rk says whether RangeKey() is non-nil, bad
\* whether its hash value cannot be marshalled.
Keyed == [rk : BOOLEAN, bad : BOOLEAN]

RECURSIVE SeqsUpTo(_, _)
SeqsUpTo(S, n) ==
    IF n = 0 THEN {<<>>}
    ELSE LET shorter == SeqsUpTo(S, n - 1)
         IN  shorter \cup {Append(s, x) : s \in {t \in shorter : Len(t) = n - 1}, x \in S}

\* Every order in which the elements of S can be listed.
Perms(S) ==
    {s \in [1..Cardinality(S) -> S] : \A i, j \in 1..Cardinality(S) : s[i] = s[j] => i = j}

Init ==
    /\ pc = "start"
    /\ names = <<>>
    /\ b = [hashKey |-> NoName, rangeKey |-> NoName, err |-> NoErr]
    /\ bg = [reqs |-> <<>>, consistent |-> FALSE, err |-> NoErr]
    /\ itr = [input |-> Nil, output |-> Nil, err |-> NoErr, idx |-> 0, backoff |-> 0]
    /\ out = <<>>
    /\ ret = "none"
    /\ allErr = NoErr
    /\ reqLog = <<>>
    /\ respLog = <<>>
    /\ unmarshals = 0
    /\ calls = 0
    /\ deadCalls = 0
    /\ panicked = FALSE

\* ----------------------------------------------------------------- builder
\* Mutant of tooManyKeys: the default case starts one name too late.
tooManyKeysLax(n) == n > MaxKeyNames + 1

\* Table.Batch, the switch on len(hashAndRangeKeyName): the default case.
tooManyKeys(n) == n > MaxKeyNames

\* Table.Batch(hashAndRangeKeyName...).
Batch ==
    /\ pc = "start"
    /\ \E n \in 0..MaxNames :
        /\ names' = [i \in 1..n |-> i]
        /\ b' = [hashKey |-> IF n \in 1..MaxKeyNames THEN 1 ELSE NoName,
                 rangeKey |-> IF n = MaxKeyNames THEN 2 ELSE NoName,
                 err |-> IF tooManyKeys(n) THEN ErrTooManyKeys ELSE NoErr]
    /\ pc' = "batch"
    /\ UNCHANGED <<bg, itr, out, ret, allErr, reqLog, respLog, unmarshals,
                   calls, deadCalls, panicked>>

\* BatchGet.setError: the first error is kept.
setError(cur, err) == IF cur = NoErr THEN err ELSE cur

\* Table.Get(name, value): the per-key Query; its err is set when the hash
\* value cannot be marshalled.
tableGet(id, key) ==
    [key |-> id, range |-> FALSE, err |-> IF key.bad THEN ErrKey(id) ELSE NoErr]

\* Query.Range(name, Equal, value): attaches the range condition; an error
\* the Query already holds stays.
queryRange(get) == [get EXCEPT !.range = TRUE]

\* BatchGet.add: one pass of the loop body per key, in order.
RECURSIVE add(_, _, _)
add(batch, g, keys) ==
    IF keys = <<>> THEN g
    ELSE LET key == Head(keys)
             get0 == tableGet(Len(g.reqs) + 1, key)
             ranged == batch.rangeKey # NoName /\ key.rk
             get == IF ranged THEN queryRange(get0) ELSE get0
             err == IF ranged THEN setError(g.err, get.err) ELSE g.err
         IN  add(batch, [g EXCEPT !.reqs = Append(@, get), !.err = err], Tail(keys))

\* Batch.Get(keys...).
Get ==
    /\ pc = "batch"
    /\ \E keys \in SeqsUpTo(Keyed, MaxKeys) :
        bg' = add(b, [reqs |-> <<>>, consistent |-> FALSE, err |-> b.err], keys)
    /\ pc' = "get"
    /\ UNCHANGED <<names, b, itr, out, ret, allErr, reqLog, respLog, unmarshals,
                   calls, deadCalls, panicked>>

\* BatchGet.And(keys...).
And ==
    /\ pc = "get"
    /\ \E keys \in SeqsUpTo(Keyed, MaxKeys - Len(bg.reqs)) :
        bg' = add(b, bg, keys)
    /\ UNCHANGED <<pc, names, b, itr, out, ret, allErr, reqLog, respLog,
                   unmarshals, calls, deadCalls, panicked>>

\* BatchGet.Consistent(on).
Consistent ==
    /\ pc = "get"
    /\ \E on \in BOOLEAN : bg' = [bg EXCEPT !.consistent = on]
    /\ UNCHANGED <<pc, names, b, itr, out, ret, allErr, reqLog, respLog,
                   unmarshals, calls, deadCalls, panicked>>

\* newBGIter(bg, fn, err).
newBGIter(err) ==
    [input |-> Nil, output |-> Nil, err |-> err, idx |-> 0, backoff |-> 0]

\* BatchGet.All, line 91: the iterator All drains, made with unmarshalAppend.
All ==
    /\ pc = "get"
    /\ itr' = newBGIter(bg.err)
    /\ pc' = "all"
    /\ UNCHANGED <<names, b, bg, out, ret, allErr, reqLog, respLog, unmarshals,
                   calls, deadCalls, panicked>>

\* BatchGet.Iter.
Iter ==
    /\ pc = "get"
    /\ itr' = newBGIter(bg.err)
    /\ pc' = "iter"
    /\ UNCHANGED <<names, b, bg, out, ret, allErr, reqLog, respLog, unmarshals,
                   calls, deadCalls, panicked>>

\* BatchGet.input dereferences kas, which is nil when there is no request,
\* to set ConsistentRead (bg.projection is never set, so line 123 is not run).
inputPanics(g) == g.reqs = <<>> /\ g.consistent

\* Mutant of input: the key of the first request is lost when kas is made.
inputSkipFirst(g) ==
    [Keys |-> [i \in 1..(Len(g.reqs) - 1) |-> g.reqs[i + 1].key],
     ConsistentRead |-> g.reqs # <<>> /\ g.consistent]

\* BatchGet.input: the single table entry of RequestItems.  The first
\* request brings its key (keysAndAttribs), the others are appended.
input(g) ==
    [Keys |-> [i \in 1..Len(g.reqs) |-> g.reqs[i].key],
     ConsistentRead |-> g.reqs # <<>> /\ g.consistent]

\* ---------------------------------------------------------------- transport
\* What BatchGetItem can answer to a request: some of the requested keys
\* are left unprocessed, and of the others those that exist come back as
\* items, in any order.  UnprocessedKeys has the form of RequestItems.
Pages(req) ==
    LET asked == {req.Keys[i] : i \in 1..Len(req.Keys)}
    IN  {[Responses |-> items,
          UnprocessedKeys |->
              IF U = {} THEN NoKeys
              ELSE [Keys |-> SelectSeq(req.Keys, LAMBDA k : k \in U),
                    ConsistentRead |-> req.ConsistentRead]] :
            <<U, items>> \in
              UNION {{<<U1, p>> : p \in UNION {Perms(D) : D \in SUBSET (asked \ U1)}} :
                     U1 \in SUBSET asked}}

\* The output of a call that failed: the SDK returns an empty output value.
FailedPage == [Responses |-> <<>>, UnprocessedKeys |-> NoKeys]

\* retry(f): nil once an attempt succeeds, or the transport's error when
\* retry gives up.
retryErrors == {NoErr, ErrTransport}

\* retry(BatchGetItem): the error retry returns, and the output the last
\* attempt left in itr.output.
Answers(req) ==
    {[err |-> NoErr, page |-> p] : p \in Pages(req)}
        \cup {[err |-> e, page |-> FailedPage] : e \in retryErrors \ {NoErr}}

\* ----------------------------------------------------------------- iterator
\* Mutant of stop: the error check at the top of Next is missing.
stopNever(it) == FALSE

\* Line 164: stop if we have an error.
stop(it) == it.err # NoErr

\* Line 171: can we use results we already have?
canUseResults(it) == it.output # Nil /\ it.idx < Len(it.output.Responses)

\* Line 184: a page was fetched and all of it has been used.
pageUsed(it) == it.output # Nil /\ it.idx >= Len(it.output.Responses)

\* Mutant of exhausted: a page without unprocessed keys does not end the
\* iteration.
exhaustedNever(it) == FALSE

\* Line 186: have we exhausted all results?
exhausted(it) == Len(it.output.UnprocessedKeys.Keys) = 0

\* Lines 180-182: new bg.
withInput(it, g) == IF it.input = Nil THEN [it EXCEPT !.input = input(g)] ELSE it

\* Mutant of prepareNext: the request is sent again as it was.
prepareNextSame(it) == [it EXCEPT !.idx = 0, !.backoff = @ + 1]

\* Mutant of prepareNext: the backoff sleep is missing.
prepareNextNoSleep(it) == [it EXCEPT !.input = it.output.UnprocessedKeys, !.idx = 0]

\* Mutant of prepareNext: only the keys of UnprocessedKeys are taken over,
\* in a fresh KeysAndAttributes.
prepareNextKeysOnly(it) ==
    [it EXCEPT !.input = [Keys |-> it.output.UnprocessedKeys.Keys, ConsistentRead |-> FALSE],
               !.idx = 0, !.backoff = @ + 1]

\* Lines 191-194: prepare next request, reset index, one backoff sleep.
prepareNext(it) ==
    [it EXCEPT !.input = it.output.UnprocessedKeys, !.idx = 0, !.backoff = @ + 1]

\* Lines 197-201: the answer is stored in the iterator.
fetched(it, ans) == [it EXCEPT !.output = ans.page, !.err = ans.err]

\* Lines 204-209: a failed call or an empty page ends the iteration.
fetchFailed(it) == it.err # NoErr \/ Len(it.output.Responses) = 0

\* Mutant of notFound: an empty first page is not reported.
notFoundNever(it) == it

\* Lines 205-207: nothing was found.
notFound(it) == IF it.idx = 0 THEN [it EXCEPT !.err = ErrNotFound] ELSE it

\* Mutant of unmarshalNext: the index steps over two items.
unmarshalNextSkip(it, ok) ==
    [it EXCEPT !.err = IF ok THEN NoErr ELSE ErrDecode(it.output.Responses[it.idx + 1]),
               !.idx = @ + 2]

\* Mutant of unmarshalNext: the error of unmarshal is dropped.
unmarshalNextIgnore(it, ok) == [it EXCEPT !.idx = @ + 1]

\* Lines 173-175 and 210-211: unmarshal items[idx] and step over it; ok says
\* whether unmarshal succeeds.
unmarshalNext(it, ok) ==
    [it EXCEPT !.err = IF ok THEN NoErr ELSE ErrDecode(it.output.Responses[it.idx + 1]),
               !.idx = @ + 1]

\* The caller-visible part of unmarshalling items[idx] of it.output: the
\* item is stored in out when unmarshal succeeds.
Unmarshal(it, ok) ==
    /\ itr' = unmarshalNext(it, ok)
    /\ out' = IF ok THEN Append(out, it.output.Responses[it.idx + 1]) ELSE out
    /\ unmarshals' = unmarshals + 1
    /\ ret' = IF itr'.err = NoErr THEN "true" ELSE "false"

\* bgIter.Next, one call.
Next1 ==
    \/ /\ stop(itr)
       /\ ret' = "false"
       /\ UNCHANGED <<itr, out, unmarshals, reqLog, respLog, panicked>>
    \/ /\ ~stop(itr)
       /\ canUseResults(itr)
       /\ \E ok \in BOOLEAN : Unmarshal(itr, ok)
       /\ UNCHANGED <<reqLog, respLog, panicked>>
    \/ /\ ~stop(itr)
       /\ ~canUseResults(itr)
       /\ itr.input = Nil
       /\ inputPanics(bg)
       /\ panicked' = TRUE
       /\ UNCHANGED <<itr, out, unmarshals, ret, reqLog, respLog>>
    \/ /\ ~stop(itr)
       /\ ~canUseResults(itr)
       /\ ~(itr.input = Nil /\ inputPanics(bg))
       /\ pageUsed(itr)
       /\ exhausted(itr)
       /\ itr' = withInput(itr, bg)
       /\ ret' = "false"
       /\ UNCHANGED <<out, unmarshals, reqLog, respLog, panicked>>
    \/ /\ ~stop(itr)
       /\ ~canUseResults(itr)
       /\ ~(itr.input = Nil /\ inputPanics(bg))
       /\ ~(pageUsed(itr) /\ exhausted(itr))
       /\ LET it0 == withInput(itr, bg)
              it1 == IF pageUsed(it0) THEN prepareNext(it0) ELSE it0
          IN  \E ans \in Answers(it1.input) :
                LET it2 == fetched(it1, ans)
                IN  /\ reqLog' = Append(reqLog, it1.input)
                    /\ respLog' = Append(respLog, ans)
                    /\ IF fetchFailed(it2)
                       THEN /\ itr' = notFound(it2)
                            /\ ret' = "false"
                            /\ UNCHANGED <<out, unmarshals>>
                       ELSE \E ok \in BOOLEAN : Unmarshal(it2, ok)
       /\ UNCHANGED panicked

\* The loop of All: one call of Next; All returns iter.Err() when it is false.
AllNext ==
    /\ pc = "all"
    /\ ~panicked
    /\ Next1
    /\ IF panicked' THEN UNCHANGED <<pc, allErr>>
       ELSE IF ret' = "false" THEN pc' = "done" /\ allErr' = itr'.err
       ELSE UNCHANGED <<pc, allErr>>
    /\ calls' = calls + 1
    /\ UNCHANGED <<names, b, bg, deadCalls>>

\* A call of Next on the iterator Iter returned.
IterNext ==
    /\ pc = "iter"
    /\ ~panicked
    /\ ret = "false" => deadCalls < MaxDeadCalls
    /\ Next1
    /\ calls' = calls + 1
    /\ deadCalls' = IF ret = "false" THEN deadCalls + 1 ELSE deadCalls
    /\ UNCHANGED <<pc, names, b, bg, allErr>>

Next ==
    \/ Batch
    \/ Get
    \/ And
    \/ Consistent
    \/ All
    \/ Iter
    \/ AllNext
    \/ IterNext

Spec == Init /\ [][Next]_vars

\* ------------------------------------------------------------- observations
\* The items of the i-th answer and the keys it reported unprocessed.
ItemsOf(i) == respLog[i].page.Responses
UnprocessedOf(i) == respLog[i].page.UnprocessedKeys.Keys

\* The items of the first n answers, page by page.
RECURSIVE ItemsUpTo(_)
ItemsUpTo(n) == IF n = 0 THEN <<>> ELSE ItemsUpTo(n - 1) \o ItemsOf(n)

\* A call of unmarshal failed: it was called more often than it stored an item.
DecodeFailed == unmarshals > Len(out)

\* A call of the transport failed.
TransportFailed == \E i \in 1..Len(respLog) : respLog[i].err # NoErr

\* The batch names its hash key (and perhaps its range key) and asks for at
\* least one key.
KeyedBatch == Len(names) \in 1..MaxKeyNames /\ Len(bg.reqs) >= 1

\* The iterator exists.
Iterating == pc \in {"all", "iter", "done"}

\* Every page so far carried an item, no call and no decode failed, and the
\* last page reported no unprocessed keys.
CleanRun ==
    /\ Len(respLog) >= 1
    /\ \A i \in 1..Len(respLog) : respLog[i].err = NoErr /\ Len(ItemsOf(i)) >= 1
    /\ ~DecodeFailed
    /\ UnprocessedOf(Len(respLog)) = <<>>

\* --------------------------------------------------------------------- C1
\* C1: when every page carries at least one item, no call and no decode
\* fails and the last page reports no unprocessed keys, All has appended
\* exactly the pages' items, page by page in the transport's order, and
\* returns nil.
C1_AllAppendsEveryPage ==
    (pc = "done" /\ CleanRun) =>
        /\ out = ItemsUpTo(Len(respLog))
        /\ allErr = NoErr
        /\ ({out[i] : i \in 1..Len(out)} = 1..Len(bg.reqs) => Len(out) = Len(bg.reqs))

\* All returned after two pages that delivered the three keys between them,
\* in an order that is not the order of the request.
C1_Witness ==
    /\ pc = "done"
    /\ CleanRun
    /\ Len(respLog) = 2
    /\ Len(out) = 3
    /\ out # reqLog[1].Keys

\* --------------------------------------------------------------------- C2
\* C2: a page that reports unprocessed keys is followed by a request for
\* those keys.  Next returning false is final, so the follow-up request must
\* have been issued by then (a decode failure apart).  Stated for batches
\* with a hash key name and at least one key.
C2_FollowUpBeforeStop ==
    (KeyedBatch /\ ret = "false" /\ ~DecodeFailed) =>
        \A i \in 1..Len(respLog) :
            UnprocessedOf(i) # <<>> =>
                /\ i < Len(reqLog)
                /\ reqLog[i + 1].Keys = UnprocessedOf(i)

\* --------------------------------------------------------------------- C3
\* C3: every request after the first asks for exactly the keys the answer
\* before it reported unprocessed, none of them a key already delivered.
C3_FollowUpKeys ==
    \A i \in 2..Len(reqLog) :
        /\ reqLog[i].Keys = UnprocessedOf(i - 1)
        /\ reqLog[i].Keys # <<>>
        /\ \A k \in 1..Len(reqLog[i].Keys), j \in 1..(i - 1) :
               \A n \in 1..Len(ItemsOf(j)) : reqLog[i].Keys[k] # ItemsOf(j)[n]

\* Three requests were issued, the second for two keys, the third for one.
C3_Witness ==
    /\ Len(reqLog) = 3
    /\ Len(reqLog[2].Keys) = 2
    /\ Len(reqLog[3].Keys) = 1

\* --------------------------------------------------------------------- C4
\* C4: after an answer that carries unprocessed keys, Err() is nil unless a
\* decode or a transport call failed.  Stated for batches with a hash key
\* name and at least one key.
C4_UnprocessedIsNoError ==
    (/\ KeyedBatch
     /\ \E i \in 1..Len(respLog) : UnprocessedOf(i) # <<>>
     /\ ~DecodeFailed
     /\ ~TransportFailed) => itr.err = NoErr

\* --------------------------------------------------------------------- C5
\* C5: when the transport call of Next fails, Next returns false and Err()
\* is the transport's error.  Stated for batches with a hash key name and at
\* least one key.
C5_TransportErrorSurfaces ==
    (KeyedBatch /\ Len(respLog) >= 1 /\ respLog[Len(respLog)].err # NoErr) =>
        (ret = "false" /\ itr.err = respLog[Len(respLog)].err)

\* --------------------------------------------------------------------- C6
\* C6: when the first page, fetched without failure, has no items, the
\* first call of Next returns false and Err() is ErrNotFound.
C6_EmptyFirstPageNotFound ==
    (Len(respLog) >= 1 /\ respLog[1].err = NoErr /\ ItemsOf(1) = <<>>) =>
        /\ ret = "false"
        /\ itr.err = ErrNotFound
        /\ calls = 1 + deadCalls
        /\ Len(reqLog) = 1

\* The first call of Next has just fetched an empty page for a request of
\* three keys.
C6_Witness ==
    /\ calls = 1
    /\ Len(respLog) = 1
    /\ respLog[1].err = NoErr
    /\ ItemsOf(1) = <<>>
    /\ Len(reqLog[1].Keys) = 3
    /\ itr.err = ErrNotFound

\* --------------------------------------------------------------------- C7
\* C7: an empty follow-up page, after a page that delivered items, does not
\* set Err() to ErrNotFound.  Stated for batches with a hash key name and at
\* least one key.
C7_EmptyLaterPageNotNotFound ==
    (/\ KeyedBatch
     /\ Len(respLog) >= 2
     /\ respLog[Len(respLog)].err = NoErr
     /\ ItemsOf(Len(respLog)) = <<>>
     /\ Len(out) >= 1) => itr.err # ErrNotFound

\* --------------------------------------------------------------------- C8
\* C8: once Next has returned false, every later call returns false, Err()
\* keeps its value, and no transport call and no decode is made.
C8_FalseIsFinal ==
    [][ret = "false" =>
        /\ ret' = "false"
        /\ itr'.err = itr.err
        /\ reqLog' = reqLog
        /\ respLog' = respLog
        /\ unmarshals' = unmarshals
        /\ out' = out]_vars

\* Next was called twice more after returning false at the end of a batch
\* that delivered items.
C8_Witness ==
    /\ ret = "false"
    /\ deadCalls >= 2
    /\ Len(out) >= 1
    /\ Len(reqLog) >= 2

\* --------------------------------------------------------------------- C9
\* C9: when decoding an item fails, that call of Next returns false, Err()
\* is the decode error of that item, and from then on nothing is decoded,
\* delivered or requested.
C9_DecodeFailureHalts ==
    /\ [](DecodeFailed =>
            /\ ret = "false"
            /\ itr.err = ErrDecode(itr.output.Responses[itr.idx])
            /\ unmarshals = Len(out) + 1
            /\ (pc = "done" => allErr = itr.err))
    /\ [][DecodeFailed => UNCHANGED <<itr, out, unmarshals, reqLog, respLog>>]_vars

\* The second item of a page of three failed to decode, unprocessed keys or
\* not, and Next was called again.
C9_Witness ==
    /\ DecodeFailed
    /\ Len(out) = 1
    /\ itr.idx = 2
    /\ Len(itr.output.Responses) = 3
    /\ deadCalls >= 1

\* -------------------------------------------------------------------- C10
\* C10: Batch records no error for 0, 1 or 2 key names; for 3 or more it
\* records the validation error without panicking, and every Get, And, All
\* and Iter made from it fails with it: Next returns false, Err() and All
\* return it, and the transport is never called.
C10_TooManyKeyNames ==
    /\ pc # "start" => (b.err = NoErr <=> Len(names) <= 2)
    /\ Len(names) >= 3 =>
        /\ b.err = ErrTooManyKeys
        /\ ~panicked
        /\ pc # "batch" => bg.err = ErrTooManyKeys
        /\ Iterating => itr.err = ErrTooManyKeys
        /\ calls >= 1 => ret = "false"
        /\ pc = "done" => allErr = ErrTooManyKeys
        /\ reqLog = <<>>
        /\ unmarshals = 0

\* All returned for a batch of three key names and two keys.
C10_Witness ==
    /\ Len(names) = 3
    /\ Len(bg.reqs) = 2
    /\ pc = "done"
    /\ calls = 1

\* -------------------------------------------------------------------- C11
\* The requests whose per-key lookup holds an error, in the order added.
FailedReqs == SelectSeq(bg.reqs, LAMBDA q : q.err # NoErr)

\* C11: when the lookup of any key given to Get or And produces an error,
\* range value or not, the builder's error is that of the first such key.
\* Stated for a Batch that names its hash key and holds no error itself.
C11_FirstKeyErrorSticks ==
    (/\ pc \notin {"start", "batch"}
     /\ Len(names) >= 1
     /\ b.err = NoErr
     /\ FailedReqs # <<>>) =>
        bg.err = FailedReqs[1].err

C13_InputMergesKeys ==
    (Len(bg.reqs) >= 1 /\ Len(reqLog) >= 1) =>
        /\ Len(reqLog[1].Keys) = Len(bg.reqs)
        /\ \A i \in 1..Len(bg.reqs) : reqLog[1].Keys[i] = bg.reqs[i].key /\ bg.reqs[i].key = i
        /\ reqLog[1].ConsistentRead = bg.consistent

\* The first request of a strongly consistent batch of three keys was sent.
C13_Witness ==
    /\ Len(bg.reqs) = 3
    /\ bg.consistent
    /\ Len(reqLog) = 1
    /\ reqLog[1].Keys = <<1, 2, 3>>

\* -------------------------------------------------------------------- C14
\* A call of Next is one step of AllNext or IterNext.
NextCalled == calls' = calls + 1

C15_CursorInPage ==
    itr.output # Nil => (0 <= itr.idx /\ itr.idx <= Len(itr.output.Responses))

\* The cursor stands at the end of a page of three items.
C15_Witness ==
    /\ itr.output # Nil
    /\ Len(itr.output.Responses) = 3
    /\ itr.idx = 3

\* -------------------------------------------------------------------- C16
\* C16: one backoff sleep per follow-up request and none before the first
\* request, so the k-th follow-up request comes after the k-th NextBackOff
\* of a backoff that is never reset; the sleep comes only after every item
\* of the pages before it has been delivered.
C16_OneSleepPerFollowUp ==
    /\ Iterating => itr.backoff = (IF reqLog = <<>> THEN 0 ELSE Len(reqLog) - 1)
    /\ itr.backoff >= 1 =>
        /\ UnprocessedOf(itr.backoff) # <<>>
        /\ Len(out) >= Len(ItemsUpTo(itr.backoff))
        /\ SubSeq(out, 1, Len(ItemsUpTo(itr.backoff))) = ItemsUpTo(itr.backoff)

\* The second follow-up request was sent after two sleeps.
C16_Witness ==
    /\ itr.backoff = 2
    /\ Len(reqLog) = 3
    /\ Len(out) >= 2

\* -------------------------------------------------------------------- C17
\* C17: a batch of zero keys runs without crashing, strongly consistent or
\* not: assembling the request dereferences no missing table entry, and the
\* first call of Next returns false.  Stated for a Batch that names its hash
\* key.
C17_ZeroKeysRun ==
    (Iterating /\ Len(names) >= 1 /\ bg.reqs = <<>>) =>
        /\ ~panicked
        /\ calls >= 1 => ret = "false"

\* -------------------------------------------------------------------- C18
\* The call of Next decoded exactly one item, successfully.
DecodedOne == unmarshals' = unmarshals + 1 /\ Len(out') = Len(out) + 1

\* What C18 says of a call apart from the cursor: Next returns true exactly
\* when the call decoded one item successfully, and then Err() is nil and
\* the call made at most one transport request.
TrueIffDecoded ==
    /\ ret' = "true" <=> DecodedOne
    /\ ret' = "true" =>
        /\ itr'.err = NoErr
        /\ Len(reqLog') <= Len(reqLog) + 1
        /\ out' = Append(out, itr'.output.Responses[itr'.idx])

\* C18 as stated: ... and whenever Next returns true the cursor advanced by
\* exactly one.  Stated for a Batch that names its hash key.
C18_TrueAdvancesByOne ==
    [][(NextCalled /\ Len(names) >= 1) =>
        (TrueIffDecoded /\ (ret' = "true" => itr'.idx = itr.idx + 1))]_vars

\* C18 as amended: ... and whenever Next returns true the cursor is one past
\* the decoded item: it advanced by one when the call made no transport
\* request, and went from 0 to 1 on the page the call fetched.
C18_TrueStepsCursor ==
    [][NextCalled =>
        /\ TrueIffDecoded
        /\ ret' = "true" =>
            itr'.idx = (IF reqLog' = reqLog THEN itr.idx + 1 ELSE 1)]_vars

\* Next returned true for the first item of a follow-up page, after a first
\* page of two items.
C18_Witness ==
    /\ ret = "true"
    /\ Len(reqLog) = 2
    /\ Len(ItemsOf(1)) = 2
    /\ itr.idx = 1
    /\ Len(out) = 3

\* -------------------------------------------------------------------- C19
\* The answers that carried items and unprocessed keys.
Partial == {i \in 1..Len(respLog) : ItemsOf(i) # <<>> /\ UnprocessedOf(i) # <<>>}

\* Those of them whose items were all decoded.
PartialDecoded == {i \in Partial : Len(out) >= Len(ItemsUpTo(i))}

====
